---- MODULE Spec2Model ----
(***************************************************************************)
(* Order pricing, coupon validation and fit-adjustment eligibility of the  *)
(* flexii e-commerce backend (src/main.py).                                *)
(*                                                                         *)
(* Money is held in hundredths of a QAR, so that the percentage discount   *)
(* (subtotal * value) / 100 of whole-QAR prices is exact.  Time is held in *)
(* days.  Python's None is the empty tuple, a present value v is <<v>>.    *)
(***************************************************************************)
EXTENDS Integers, Sequences, FiniteSets, TLC

VARIABLES
  products,   \* db.products: product id -> Product
  users,      \* db.users: user id -> User (addresses, measurementProfiles)
  coupons,    \* db.coupons: code -> Coupon
  carts,      \* db.carts: user id -> None, or Some(the cart's items)
  orders,     \* db.orders, in insertion order
  now,        \* datetime.utcnow(), in days
  response,   \* the last request, the time it was answered at, and its answer
  inflight    \* the requests being handled concurrently: each one's position and what it read

vars == <<products, users, coupons, carts, orders, now, response, inflight>>

\* ------------------------------------------------------------------ bounds
MaxCartLen == 2
MaxTime == 1
MaxMeasure == 2
MaxQty == 2

\* --------------------------------------------------------- policy constants
FREE_DELIVERY_THRESHOLD == 200
DELIVERY_FEE == 15
FREEDELIVERY_DISCOUNT == 15
BASE_DELIVERY_DAYS == 5
FIT_DELIVERY_DAYS == 3
FIT_FEE == 30
FIT_EXTRA_DAYS == 3

\* ----------------------------------------------------------- Python values
None == <<>>
Some(v) == <<v>>
QAR(n) == n * 100

\* bool(x) of an Optional[float]: None and 0 are both falsy
TruthyNum(o) == o # None /\ o[1] # 0
\* bool(x) of an Optional[dict]: None and the empty dict are both falsy
TruthyDict(o) == o # None /\ DOMAIN o[1] # {}
\* dict.get(key, default)
Get(d, key, default) == IF key \in DOMAIN d THEN d[key] ELSE default
Min(a, b) == IF a <= b THEN a ELSE b

\* ------------------------------------------------------------ the catalogue
Sizes == {"M", "L"}
Dimensions == <<"bust", "waist", "hips", "shoulder">>

\* class SizeChart: the four ceilings of one size
SizeChart(b, w, h, s) == [bust_max |-> b, waist_max |-> w, hips_max |-> h, shoulder_max |-> s]

\* class Product, the fields the handlers read
Product(price, discountPrice, fitAdjustmentEnabled, sizeChart) ==
  [price |-> price, discountPrice |-> discountPrice,
   fitAdjustmentEnabled |-> fitAdjustmentEnabled, sizeChart |-> sizeChart]

\* class Coupon
Coupon(type, value, minCartValue, maxDiscount, validFrom, validTo, isActive) ==
  [type |-> type, value |-> value, minCartValue |-> minCartValue,
   maxDiscount |-> maxDiscount, validFrom |-> validFrom, validTo |-> validTo,
   isActive |-> isActive]

\* class CartItem
CartItem(productId, size, quantity, fitAdjustment) ==
  [productId |-> productId, size |-> size, quantity |-> quantity,
   fitAdjustment |-> fitAdjustment]

\* class OrderItem
OrderItem(productId, size, quantity, price, fitAdjustment) ==
  [productId |-> productId, size |-> size, quantity |-> quantity,
   price |-> price, fitAdjustment |-> fitAdjustment]

\* db.products.find_one({"id": id})
FindProduct(id) == IF id \in DOMAIN products THEN Some(products[id]) ELSE None

\* db.coupons.find_one({"code": code, "isActive": True})
FindActiveCoupon(code) ==
  IF code \in DOMAIN coupons /\ coupons[code].isActive THEN Some(coupons[code]) ELSE None

\* coupon["validFrom"] <= now <= coupon["validTo"]
InWindow(coupon, t) == coupon.validFrom <= t /\ t <= coupon.validTo

\* price = product.get("discountPrice") or product.get("price")
EffectivePrice(product) ==
  IF TruthyNum(product.discountPrice) THEN product.discountPrice[1] ELSE product.price

\* ------------------------------------------------------------- create_order
\* the loop over cart["items"]: items whose product does not resolve are skipped
RECURSIVE PriceItems(_)
PriceItems(items) ==
  IF items = <<>>
  THEN [order_items |-> <<>>, subtotal |-> 0, fit_adjustment_fee |-> 0]
  ELSE LET done == PriceItems(SubSeq(items, 1, Len(items) - 1))
           item == items[Len(items)]
           product == FindProduct(item.productId)
       IN  IF product = None
           THEN done
           ELSE LET price == EffectivePrice(product[1])
                    item_total == price * item.quantity
                    fee == IF TruthyDict(item.fitAdjustment)
                           THEN Get(item.fitAdjustment[1], "fee", 0) * item.quantity
                           ELSE 0
                IN  [order_items |-> Append(done.order_items,
                                            OrderItem(item.productId, item.size, item.quantity,
                                                      price, item.fitAdjustment)),
                     subtotal |-> done.subtotal + item_total,
                     fit_adjustment_fee |-> done.fit_adjustment_fee + fee]

\* the discount of a found coupon inside create_order: percentage and flat only
OrderCouponDiscount(coupon, subtotal) ==
  IF coupon.type = "percentage"
  THEN LET discount == (subtotal * coupon.value) \div 100
       IN  IF TruthyNum(coupon.maxDiscount) THEN Min(discount, coupon.maxDiscount[1]) ELSE discount
  ELSE IF coupon.type = "flat" THEN coupon.value
  ELSE 0

\* "Apply coupon": no code, unknown, inactive or out-of-window coupons give 0
OrderDiscount(couponCode, subtotal, t) ==
  IF couponCode = None THEN 0
  ELSE LET coupon == FindActiveCoupon(couponCode[1])
       IN  IF coupon # None /\ InWindow(coupon[1], t)
           THEN OrderCouponDiscount(coupon[1], subtotal)
           ELSE 0

\* a delivery fee that is still charged at exactly the threshold
DeliveryFeeAtThreshold(subtotal) ==
  IF subtotal <= QAR(FREE_DELIVERY_THRESHOLD) THEN QAR(DELIVERY_FEE) ELSE 0

\* delivery_fee = 15 if subtotal < 200 else 0
DeliveryFeeFor(subtotal) ==
  IF subtotal < QAR(FREE_DELIVERY_THRESHOLD) THEN QAR(DELIVERY_FEE) ELSE 0

\* total = subtotal - discount + fit_adjustment_fee + delivery_fee
OrderTotal(subtotal, discount, fit_adjustment_fee, delivery_fee) ==
  subtotal - discount + fit_adjustment_fee + delivery_fee

\* has_fit_adjustment = any(item.get("fitAdjustment") for item in cart["items"])
HasFitAdjustment(items) ==
  \E i \in 1..Len(items) : TruthyDict(items[i].fitAdjustment)

\* extra_days = 5, += 3 when has_fit_adjustment
DeliveryDays(has_fit_adjustment) ==
  IF has_fit_adjustment THEN BASE_DELIVERY_DAYS + FIT_DELIVERY_DAYS ELSE BASE_DELIVERY_DAYS

\* orderStatus of the new order
InitialStatus(has_fit_adjustment) ==
  IF has_fit_adjustment THEN "fit_adjustment_in_progress" ELSE "processing"

\* an address lookup that falls back to the user's first address
FindAddressOrFirst(addresses, id) ==
  IF \E i \in 1..Len(addresses) : addresses[i] = id THEN Some(id)
  ELSE IF addresses # <<>> THEN Some(addresses[1]) ELSE None

\* the first address of the user with the requested id, if any
FindAddress(addresses, id) ==
  IF \E i \in 1..Len(addresses) : addresses[i] = id THEN Some(id) ELSE None

\* Order(...) as built from the cart's items
BuildOrder(userId, items, shipping_address, couponCode, t) ==
  LET priced == PriceItems(items)
      discount == OrderDiscount(couponCode, priced.subtotal, t)
      delivery_fee == DeliveryFeeFor(priced.subtotal)
      has_fit_adjustment == HasFitAdjustment(items)
  IN  [userId |-> userId,
       items |-> priced.order_items,
       shippingAddress |-> shipping_address,
       subtotal |-> priced.subtotal,
       discount |-> discount,
       fitAdjustmentFee |-> priced.fit_adjustment_fee,
       deliveryFee |-> delivery_fee,
       total |-> OrderTotal(priced.subtotal, discount, priced.fit_adjustment_fee, delivery_fee),
       paymentStatus |-> "pending",
       orderStatus |-> InitialStatus(has_fit_adjustment),
       couponCode |-> couponCode,
       estimatedDelivery |-> t + DeliveryDays(has_fit_adjustment),
       createdAt |-> t]

Error(op, status, detail) == [op |-> op, status |-> status, body |-> [detail |-> detail]]

\* a response together with the request it answers and the time it was computed at
Answer(request, t, resp) == [request |-> request, at |-> t, op |-> resp.op,
                             status |-> resp.status, body |-> resp.body]

\* POST /orders/create
CreateOrder(userId, shippingAddressId, couponCode) ==
  LET cart == carts[userId]
      request == [userId |-> userId, shippingAddressId |-> shippingAddressId,
                  couponCode |-> couponCode]
  IN  IF cart = None \/ cart[1] = <<>>
      THEN /\ response' = Answer(request, now, Error("create_order", 400, "Cart is empty"))
           /\ UNCHANGED <<products, users, coupons, carts, orders, now, inflight>>
      ELSE IF userId \notin DOMAIN users
      THEN /\ response' = Answer(request, now, Error("create_order", 404, "User not found"))
           /\ UNCHANGED <<products, users, coupons, carts, orders, now, inflight>>
      ELSE LET shipping_address == FindAddress(users[userId].addresses, shippingAddressId)
           IN  IF shipping_address = None
               THEN /\ response' = Answer(request, now, Error("create_order", 404, "Address not found"))
                    /\ UNCHANGED <<products, users, coupons, carts, orders, now, inflight>>
               ELSE LET order == BuildOrder(userId, cart[1], shipping_address[1], couponCode, now)
                    IN  /\ orders' = Append(orders, order)
                        /\ carts' = [carts EXCEPT ![userId] = None]
                        /\ response' = Answer(request, now,
                                             [op |-> "create_order", status |-> 200,
                                              body |-> [success |-> TRUE, order |-> order]])
                        /\ UNCHANGED <<products, users, coupons, now, inflight>>

\* ---------------------------------------------------------- validate_coupon
\* "Calculate discount" of validate_coupon
ValidateCouponDiscount(coupon, cartTotal) ==
  IF coupon.type = "percentage"
  THEN LET discount == (cartTotal * coupon.value) \div 100
       IN  IF TruthyNum(coupon.maxDiscount) THEN Min(discount, coupon.maxDiscount[1]) ELSE discount
  ELSE IF coupon.type = "flat" THEN coupon.value
  ELSE IF coupon.type = "freedelivery" THEN QAR(FREEDELIVERY_DISCOUNT)
  ELSE 0

\* a validate_coupon that folds the window test into the lookup, as create_order does
ValidateCouponResponseFolded(code, cartTotal, t) ==
  LET coupon == FindActiveCoupon(code)
  IN  IF coupon = None \/ ~InWindow(coupon[1], t)
      THEN Error("validate_coupon", 404, "Invalid coupon code")
      ELSE IF cartTotal < coupon[1].minCartValue
      THEN [op |-> "validate_coupon", status |-> 400,
            body |-> [detail |-> "Minimum cart value is QAR", minCartValue |-> coupon[1].minCartValue]]
      ELSE [op |-> "validate_coupon", status |-> 200,
            body |-> [valid |-> TRUE, discount |-> ValidateCouponDiscount(coupon[1], cartTotal)]]

\* the response of validate_coupon at time t
ValidateCouponResponse(code, cartTotal, t) ==
  LET coupon == FindActiveCoupon(code)
  IN  IF coupon = None
      THEN Error("validate_coupon", 404, "Invalid coupon code")
      ELSE IF ~InWindow(coupon[1], t)
      THEN Error("validate_coupon", 400, "Coupon has expired")
      ELSE IF cartTotal < coupon[1].minCartValue
      THEN [op |-> "validate_coupon", status |-> 400,
            body |-> [detail |-> "Minimum cart value is QAR", minCartValue |-> coupon[1].minCartValue]]
      ELSE [op |-> "validate_coupon", status |-> 200,
            body |-> [valid |-> TRUE, discount |-> ValidateCouponDiscount(coupon[1], cartTotal)]]

\* POST /coupons/validate
ValidateCoupon(code, cartTotal) ==
  /\ response' = Answer([code |-> code, cartTotal |-> cartTotal], now,
                        ValidateCouponResponse(code, cartTotal, now))
  /\ UNCHANGED <<products, users, coupons, carts, orders, now, inflight>>

\* datetime.utcnow() advances between requests
Tick ==
  /\ now < MaxTime
  /\ now' = now + 1
  /\ UNCHANGED <<products, users, coupons, carts, orders, response, inflight>>

\* -------------------------------------------------- validate_fit_adjustment
\* comparisons that also list a measurement equal to its ceiling
FitReasonsInclusive(measurements, size_chart) ==
  (IF Get(measurements, "bust", 0) >= size_chart.bust_max THEN <<"bust">> ELSE <<>>)
  \o (IF Get(measurements, "waist", 0) >= size_chart.waist_max THEN <<"waist">> ELSE <<>>)
  \o (IF Get(measurements, "hips", 0) >= size_chart.hips_max THEN <<"hips">> ELSE <<>>)
  \o (IF Get(measurements, "shoulder", 0) >= size_chart.shoulder_max THEN <<"shoulder">> ELSE <<>>)

\* the four comparisons against the size's ceilings, appended in source order
FitReasons(measurements, size_chart) ==
  (IF Get(measurements, "bust", 0) > size_chart.bust_max THEN <<"bust">> ELSE <<>>)
  \o (IF Get(measurements, "waist", 0) > size_chart.waist_max THEN <<"waist">> ELSE <<>>)
  \o (IF Get(measurements, "hips", 0) > size_chart.hips_max THEN <<"hips">> ELSE <<>>)
  \o (IF Get(measurements, "shoulder", 0) > size_chart.shoulder_max THEN <<"shoulder">> ELSE <<>>)

\* an availability test that looks at the chart alone and forgets the flag
FitUnavailableChartOnly(product) ==
  ~TruthyDict(product.sizeChart)

\* "Check eligibility": not product.get("fitAdjustmentEnabled") or not product.get("sizeChart")
FitUnavailable(product) ==
  ~product.fitAdjustmentEnabled \/ ~TruthyDict(product.sizeChart)

\* an eligible decision that echoes the profile's id in place of its name
EligibleDecisionEchoId(profile) ==
  [eligible |-> TRUE, fee |-> QAR(FIT_FEE), extraDays |-> FIT_EXTRA_DAYS,
   adjustments |-> <<"length", "sleeve", "waist">>, profileName |-> profile.id]

\* the terms of an eligible decision
EligibleDecision(profile) ==
  [eligible |-> TRUE, fee |-> QAR(FIT_FEE), extraDays |-> FIT_EXTRA_DAYS,
   adjustments |-> <<"length", "sleeve", "waist">>, profileName |-> profile.profileName]

\* the decision for a found product and profile
FitDecision(product, selectedSize, profile) ==
  IF FitUnavailable(product)
  THEN [eligible |-> FALSE, message |-> "Fit adjustment not available for this product"]
  ELSE LET size_chart == Get(product.sizeChart[1], selectedSize, None)
       IN  IF size_chart = None
           THEN [eligible |-> FALSE, message |-> "Size chart not available"]
           ELSE LET reasons == FitReasons(profile.measurements, size_chart)
                IN  IF reasons # <<>>
                    THEN [eligible |-> FALSE, reasons |-> reasons,
                          message |-> "These measurements exceed the selected size"]
                    ELSE EligibleDecision(profile)

\* db.users.find_one({"measurementProfiles.id": profileId}), then the loop over its profiles
FindProfile(profileId) ==
  LET owners == {u \in DOMAIN users :
                   \E i \in 1..Len(users[u].measurementProfiles) :
                     users[u].measurementProfiles[i].id = profileId}
  IN  IF owners = {} THEN [user |-> None, profile |-> None]
      ELSE LET u == CHOOSE o \in owners : TRUE
               ps == users[u].measurementProfiles
               i == CHOOSE j \in 1..Len(ps) :
                      ps[j].id = profileId /\ \A k \in 1..(j - 1) : ps[k].id # profileId
           IN  [user |-> Some(u), profile |-> Some(ps[i])]

\* the response of validate_fit_adjustment
ValidateFitResponse(productId, selectedSize, profileId) ==
  LET product == FindProduct(productId)
      found == FindProfile(profileId)
  IN  IF product = None THEN Error("validate_fit_adjustment", 404, "Product not found")
      ELSE IF found.user = None THEN Error("validate_fit_adjustment", 404, "User not found")
      ELSE IF found.profile = None THEN Error("validate_fit_adjustment", 404, "Profile not found")
      ELSE [op |-> "validate_fit_adjustment", status |-> 200,
            body |-> FitDecision(product[1], selectedSize, found.profile[1])]

\* POST /measurements/validate
ValidateFitAdjustment(productId, selectedSize, profileId) ==
  /\ response' = Answer([productId |-> productId, selectedSize |-> selectedSize,
                         profileId |-> profileId], now,
                        ValidateFitResponse(productId, selectedSize, profileId))
  /\ UNCHANGED <<products, users, coupons, carts, orders, now, inflight>>

\* ------------------------------------------------------- the checkout model
UserIds == {"u1"}
AddressIds == {"a1", "a9"}
ProductIds == {"p1", "p2"}
\* add_to_cart stores any productId it is given: "gone" resolves to no product
CartProductIds == ProductIds \cup {"gone"}
CartSizes == {"M"}

\* the fitAdjustment payloads a client attaches to a cart item
FitStandard == [profileId |-> "pr1", profileName |-> "Me", fee |-> QAR(FIT_FEE), extraDays |-> FIT_EXTRA_DAYS]
FitLong == [profileId |-> "pr1", profileName |-> "Me", fee |-> QAR(FIT_FEE), extraDays |-> FIT_EXTRA_DAYS + 4]
FitChoices == {None, Some(FitStandard), Some(FitLong)}

Quantities == {1, 2}

\* the items a cart may hold for one product
CartItemsOf(p) == {CartItem(p, s, q, f) : s \in CartSizes, q \in Quantities, f \in FitChoices}

\* the order in which the model's carts list their products
CartOrder == <<"p1", "gone", "p2">>

\* add_to_cart keeps one item per (productId, size): the carts of the model hold
\* at most MaxCartLen items, of distinct products, listed in CartOrder
RECURSIVE CartsFrom(_, _)
CartsFrom(k, room) ==
  IF k > Len(CartOrder) \/ room = 0
  THEN {<<>>}
  ELSE CartsFrom(k + 1, room)
       \cup {<<item>> \o rest : item \in CartItemsOf(CartOrder[k]), rest \in CartsFrom(k + 1, room - 1)}

CartContents == CartsFrom(1, MaxCartLen)

\* seed_data's products, the fields create_order reads (p1 has a discount price of 0)
CheckoutProducts ==
  [p \in ProductIds |->
     IF p = "p1" THEN Product(QAR(100), Some(0), FALSE, None)
     ELSE Product(QAR(349), Some(QAR(249)), FALSE, None)]

\* seed_data's three coupons, and four more that cover the other shapes of a Coupon
CouponCodes == {"RAMADAN15", "FIRST50", "FREESHIP", "ZEROCAP", "TENOFF", "PAUSED", "FLASH"}
CheckoutCoupons ==
  [c \in CouponCodes |->
     CASE c = "RAMADAN15" -> Coupon("percentage", 15, QAR(200), Some(QAR(50)), 0, 30, TRUE)
       [] c = "FIRST50"   -> Coupon("flat", QAR(50), QAR(300), None, 0, 60, TRUE)
       [] c = "FREESHIP"  -> Coupon("freedelivery", 0, 0, None, 0, 90, TRUE)
       [] c = "ZEROCAP"   -> Coupon("percentage", 10, 0, Some(0), 0, 30, TRUE)
       [] c = "TENOFF"    -> Coupon("percentage", 10, 0, None, 1, 30, TRUE)
       [] c = "PAUSED"    -> Coupon("flat", QAR(50), 0, None, 0, 30, FALSE)
       [] c = "FLASH"     -> Coupon("flat", QAR(500), 0, None, 0, 0, TRUE)]

\* the codes a request may carry: every stored code and one that is not stored
RequestCodes == CouponCodes \cup {"NOSUCH"}
\* the cartTotal values validate_coupon is asked about
CartTotals == {QAR(249), QAR(498)}

NoResponse == Answer([none |-> TRUE], 0, Error("none", 0, ""))

Init ==
  /\ products = CheckoutProducts
  /\ users = [u \in UserIds |-> [addresses |-> <<"a1">>, measurementProfiles |-> <<>>]]
  /\ coupons = CheckoutCoupons
  /\ carts \in [UserIds -> {None} \cup {Some(items) : items \in CartContents}]
  /\ orders = <<>>
  /\ now = 0
  /\ response = NoResponse
  /\ inflight = <<>>

Next ==
  \/ \E u \in UserIds, a \in AddressIds, c \in {None} \cup {Some(code) : code \in RequestCodes} :
       CreateOrder(u, a, c)
  \/ \E code \in RequestCodes, cartTotal \in CartTotals : ValidateCoupon(code, cartTotal)
  \/ Tick

Spec == Init /\ [][Next]_vars

\* ------------------------------------------------- the fit-adjustment model
DimensionNames == {Dimensions[i] : i \in 1..Len(Dimensions)}

\* MeasurementProfile.measurements: any of the four dimensions may be missing
MeasurementChoices == UNION {[D -> 0..MaxMeasure] : D \in SUBSET DimensionNames}

ProfileNames == {"Me", "Mother"}
ProfileIds == {"pr1", "pr9"}

\* Product.sizeChart: absent, empty, or with ceilings for M alone or for M and L
SizeChartChoices ==
  {None,
   Some([s \in {} |-> SizeChart(0, 0, 0, 0)]),
   Some([s \in {"M"} |-> SizeChart(1, 1, 1, 1)]),
   Some([s \in {"M", "L"} |-> IF s = "M" THEN SizeChart(1, 0, 1, 1) ELSE SizeChart(1, 1, 1, 1)])}

InitFit ==
  /\ \E enabled \in BOOLEAN, chart \in SizeChartChoices :
       products = [p \in {"p1"} |-> Product(QAR(100), None, enabled, chart)]
  /\ \E name \in ProfileNames, m \in MeasurementChoices :
       users = [u \in UserIds |->
                  [addresses |-> <<"a1">>,
                   measurementProfiles |-> <<[id |-> "pr1", profileName |-> name,
                                              measurements |-> m]>>]]
  /\ coupons = CheckoutCoupons
  /\ carts = [u \in UserIds |-> None]
  /\ orders = <<>>
  /\ now = 0
  /\ response = NoResponse
  /\ inflight = <<>>

NextFit ==
  \E p \in CartProductIds \ {"p2"}, s \in Sizes, pr \in ProfileIds : ValidateFitAdjustment(p, s, pr)

SpecFit == InitFit /\ [][NextFit]_vars

\* ------------------------------------------------------------- properties
AllOrders == {orders[i] : i \in 1..Len(orders)}

\* some line item of an order carries a fit adjustment
CarriesFit(o) == \E i \in 1..Len(o.items) : TruthyDict(o.items[i].fitAdjustment)

\* the coupon an order names was stored, active and in its window when the order was created
AppliedCoupon(o, c) ==
  /\ o.couponCode = Some(c)
  /\ c \in DOMAIN coupons
  /\ coupons[c].isActive
  /\ InWindow(coupons[c], o.createdAt)

\* validate_coupon has just accepted stored coupon c
AcceptedCoupon(c) ==
  /\ response.op = "validate_coupon"
  /\ response.status = 200
  /\ response.request.code = c
  /\ c \in DOMAIN coupons

IsCappedPercentage(discount, coupon, amount) ==
  IF coupon.maxDiscount = None
  THEN discount * 100 = amount * coupon.value
  ELSE discount * 100 = Min(amount * coupon.value, coupon.maxDiscount[1] * 100)

\* C2: for a percentage coupon, validate_coupon and create_order both give
\* discount = subtotal * value / 100, cut to maxDiscount whenever maxDiscount is set,
\* a cap of 0 included.
C2_PercentageDiscount ==
  /\ \A o \in AllOrders : \A c \in DOMAIN coupons :
       (AppliedCoupon(o, c) /\ coupons[c].type = "percentage")
         => IsCappedPercentage(o.discount, coupons[c], o.subtotal)
  /\ \A c \in DOMAIN coupons :
       (AcceptedCoupon(c) /\ coupons[c].type = "percentage")
         => IsCappedPercentage(response.body.discount, coupons[c], response.request.cartTotal)

\* C3: a coupon applied to a subtotal strictly below its minCartValue is rejected by
\* validate_coupon and grants no discount in a created order.
C3_MinCartValue ==
  /\ \A o \in AllOrders : \A c \in DOMAIN coupons :
       (o.couponCode = Some(c) /\ o.subtotal < coupons[c].minCartValue) => o.discount = 0
  /\ \A c \in DOMAIN coupons :
       (response.op = "validate_coupon" /\ response.request.code = c
        /\ response.request.cartTotal < coupons[c].minCartValue)
         => response.status # 200

\* validate_fit_adjustment has just answered 200 for a stored product and profile
FitAnswered ==
  /\ response.op = "validate_fit_adjustment"
  /\ response.status = 200

AnsweredProduct == products[response.request.productId]
AnsweredProfile == FindProfile(response.request.profileId).profile[1]

\* the product of the answered request has a chart entry for the selected size
HasChartEntry ==
  /\ AnsweredProduct.sizeChart # None
  /\ response.request.selectedSize \in DOMAIN AnsweredProduct.sizeChart[1]

AnsweredCeilings == AnsweredProduct.sizeChart[1][response.request.selectedSize]

CeilingOf(chart, d) ==
  CASE d = "bust" -> chart.bust_max
    [] d = "waist" -> chart.waist_max
    [] d = "hips" -> chart.hips_max
    [] d = "shoulder" -> chart.shoulder_max

\* the dimensions, in the order bust, waist, hips, shoulder, whose measurement (0 when
\* missing) is strictly greater than the ceiling
Exceeding(measurements, chart) ==
  SelectSeq(Dimensions, LAMBDA d : Get(measurements, d, 0) > CeilingOf(chart, d))

\* the reasons list of a decision; a decision without one lists nothing
ReasonsOf(body) == Get(body, "reasons", <<>>)

\* the reasons are exactly the exceeding dimensions, and the decision is not-eligible
\* if and only if there is one
ReasonsAreExceeding ==
  LET expected == Exceeding(AnsweredProfile.measurements, AnsweredCeilings)
  IN  /\ ReasonsOf(response.body) = expected
      /\ ("reasons" \in DOMAIN response.body) = (expected # <<>>)
      /\ response.body.eligible = (expected = <<>>)

\* C4 as stated: whenever the product has a chart entry for the selected size, the
\* reasons list is exactly the exceeding dimensions in order, and the decision is
\* not-eligible if and only if that list is non-empty.
C4_ReasonsWheneverChartEntry ==
  (FitAnswered /\ HasChartEntry) => ReasonsAreExceeding

\* C4 as amended: the same, for a product that also has fitAdjustmentEnabled set.
C4_Reasons ==
  (FitAnswered /\ HasChartEntry /\ AnsweredProduct.fitAdjustmentEnabled) => ReasonsAreExceeding

\* a decision listing waist alone, although bust equals its ceiling and hips is missing
C4_Witness ==
  /\ FitAnswered /\ HasChartEntry /\ AnsweredProduct.fitAdjustmentEnabled
  /\ "hips" \notin DOMAIN AnsweredProfile.measurements
  /\ "bust" \in DOMAIN AnsweredProfile.measurements
  /\ AnsweredProfile.measurements["bust"] = AnsweredCeilings.bust_max
  /\ response.body.eligible = FALSE
  /\ response.body.reasons = <<"waist">>

\* C5: for a product with fitAdjustmentEnabled false, or with no sizeChart, the decision
\* is not-eligible with the "not available for this product" message and no reasons
\* list, whatever the size and the measurements; that cause raises no error.
C5_Unavailable ==
  (/\ response.op = "validate_fit_adjustment"
   /\ response.request.productId \in DOMAIN products
   /\ (~AnsweredProduct.fitAdjustmentEnabled \/ AnsweredProduct.sizeChart = None))
    => IF FindProfile(response.request.profileId).user = None
       THEN response.status = 404 /\ response.body.detail = "User not found"
       ELSE /\ response.status = 200
            /\ response.body = [eligible |-> FALSE,
                                message |-> "Fit adjustment not available for this product"]

\* a disabled product whose chart holds the size and whose ceilings the profile meets
\* is still answered "not available"
C5_Witness ==
  /\ FitAnswered /\ HasChartEntry
  /\ ~AnsweredProduct.fitAdjustmentEnabled
  /\ Exceeding(AnsweredProfile.measurements, AnsweredCeilings) = <<>>
  /\ response.body.eligible = FALSE

\* C6: every eligible decision has fee = 30, extraDays = 3 and
\* adjustments = [length, sleeve, waist], and echoes the profile's profileName.
C6_EligibleTerms ==
  (FitAnswered /\ response.body.eligible)
    => response.body = [eligible |-> TRUE, fee |-> QAR(30), extraDays |-> 3,
                        adjustments |-> <<"length", "sleeve", "waist">>,
                        profileName |-> AnsweredProfile.profileName]

\* an eligible decision for the profile named Mother with a measurement at its ceiling
C6_Witness ==
  /\ FitAnswered /\ response.body.eligible
  /\ AnsweredProfile.profileName = "Mother"
  /\ response.request.selectedSize = "L"
  /\ Get(AnsweredProfile.measurements, "waist", 0) = AnsweredCeilings.waist_max

\* C7: a created order is fit_adjustment_in_progress if one of its line items carries a
\* fit adjustment and processing otherwise.
C7_StatusFollowsOrderItems ==
  \A o \in AllOrders :
    o.orderStatus = (IF CarriesFit(o) THEN "fit_adjustment_in_progress" ELSE "processing")

\* C8: estimatedDelivery is creation time + 8 days when a line item of the order carries
\* a fit adjustment and creation time + 5 days when none does.
C8_DeliveryFollowsOrderItems ==
  \A o \in AllOrders :
    o.estimatedDelivery = o.createdAt + (IF CarriesFit(o) THEN 8 ELSE 5)

\* validate_coupon's answer for a code that is not stored
NotFoundAnswer == [status |-> 404, body |-> [detail |-> "Invalid coupon code"]]
AnswerGiven == [status |-> response.status, body |-> response.body]

\* validate_coupon has just answered for stored coupon c
AnsweredCoupon(c) ==
  /\ response.op = "validate_coupon"
  /\ response.request.code = c
  /\ c \in DOMAIN coupons

\* C9 as stated: a stored code that is inactive, or outside its window, fails with an
\* error other than the one of a code that is not stored.
C9_InactiveOrExpiredDistinct ==
  \A c \in DOMAIN coupons :
    (AnsweredCoupon(c) /\ (~coupons[c].isActive \/ ~InWindow(coupons[c], response.at)))
      => (response.status # 200 /\ AnswerGiven # NotFoundAnswer)

\* C9 as amended: a stored, active code outside its window fails with 400 "Coupon has
\* expired", which differs from the 404 of a code that is not stored; a stored but
\* inactive code gets that same 404.
C9_ExpiredDistinct ==
  \A c \in DOMAIN coupons :
    /\ (AnsweredCoupon(c) /\ coupons[c].isActive /\ ~InWindow(coupons[c], response.at))
         => (/\ AnswerGiven = [status |-> 400, body |-> [detail |-> "Coupon has expired"]]
             /\ AnswerGiven # NotFoundAnswer)
    /\ (AnsweredCoupon(c) /\ ~coupons[c].isActive) => AnswerGiven = NotFoundAnswer

\* an active coupon asked about after its window has closed
C9_Witness ==
  \E c \in DOMAIN coupons :
    /\ AnsweredCoupon(c) /\ coupons[c].isActive
    /\ response.at > coupons[c].validTo
    /\ response.status = 400

\* C10: an active, in-window free-delivery coupon whose minimum is met gives a discount
\* of 15 in validate_coupon and in the created order, and leaves deliveryFee as it is.
C10_FreeDeliveryDiscount ==
  /\ \A c \in DOMAIN coupons :
       (AcceptedCoupon(c) /\ coupons[c].type = "freedelivery")
         => response.body.discount = QAR(15)
  /\ \A o \in AllOrders : \A c \in DOMAIN coupons :
       (AppliedCoupon(o, c) /\ coupons[c].type = "freedelivery"
        /\ o.subtotal >= coupons[c].minCartValue)
         => (/\ o.discount = QAR(15)
             /\ o.deliveryFee = (IF o.subtotal < QAR(200) THEN QAR(15) ELSE 0))

\* ------------------------------------------------------------ cart handlers
\* an update that adds the given items to the stored ones instead of replacing them
MergeItems(stored, items) ==
  Some(stored[1] \o SelectSeq(items, LAMBDA item :
         \A k \in 1..Len(stored[1]) : stored[1][k] # item))

\* update_one's {"$set": {"items": ...}} on the stored cart: the whole field is replaced
SetItems(stored, items) == Some(items)

\* for i, item in enumerate(cart["items"]): the first item of the product and size, or 0
RECURSIVE IndexOfItem(_, _, _, _)
IndexOfItem(items, productId, size, from) ==
  IF from > Len(items) THEN 0
  ELSE IF items[from].productId = productId /\ items[from].size = size THEN from
  ELSE IndexOfItem(items, productId, size, from + 1)

\* add_to_cart's change to the items it read: quantity += on a match, append otherwise
AddedItems(items, productId, size, quantity, fitAdjustment) ==
  LET existing_item == IndexOfItem(items, productId, size, 1)
  IN  IF existing_item # 0
      THEN [items EXCEPT ![existing_item].quantity = @ + quantity]
      ELSE Append(items, CartItem(productId, size, quantity, fitAdjustment))

\* update_cart's change to the items it read: the first match gets the requested quantity
UpdatedItems(items, productId, size, quantity) ==
  LET i == IndexOfItem(items, productId, size, 1)
  IN  IF i # 0 THEN [items EXCEPT ![i].quantity = quantity] ELSE items

\* remove_from_cart's change to the items it read: every match is filtered out
RemovedItems(items, productId, size) ==
  SelectSeq(items, LAMBDA item : ~(item.productId = productId /\ item.size = size))

Success(op, message) == [op |-> op, status |-> 200, body |-> [success |-> TRUE, message |-> message]]

\* POST /cart/add
AddToCart(userId, productId, size, quantity, fitAdjustment) ==
  LET cart == carts[userId]
      request == [userId |-> userId, productId |-> productId, size |-> size,
                  quantity |-> quantity, fitAdjustment |-> fitAdjustment]
      written == IF cart # None
                 THEN AddedItems(cart[1], productId, size, quantity, fitAdjustment)
                 ELSE <<CartItem(productId, size, quantity, fitAdjustment)>>
  IN  /\ \A i \in 1..Len(written) : written[i].quantity <= MaxQty
      /\ carts' = [carts EXCEPT ![userId] = Some(written)]
      /\ response' = Answer(request, now, Success("add_to_cart", "Added to cart"))
      /\ UNCHANGED <<products, users, coupons, orders, now, inflight>>

\* POST /cart/update
UpdateCart(userId, productId, size, quantity) ==
  LET cart == carts[userId]
      request == [userId |-> userId, productId |-> productId, size |-> size,
                  quantity |-> quantity]
  IN  IF cart = None
      THEN /\ response' = Answer(request, now, Error("update_cart", 404, "Cart not found"))
           /\ UNCHANGED <<products, users, coupons, carts, orders, now, inflight>>
      ELSE /\ carts' = [carts EXCEPT ![userId] = Some(UpdatedItems(cart[1], productId, size, quantity))]
           /\ response' = Answer(request, now, Success("update_cart", "Cart updated"))
           /\ UNCHANGED <<products, users, coupons, orders, now, inflight>>

\* POST /cart/remove
RemoveFromCart(userId, productId, size) ==
  LET cart == carts[userId]
      request == [userId |-> userId, productId |-> productId, size |-> size]
  IN  IF cart = None
      THEN /\ response' = Answer(request, now, Error("remove_from_cart", 404, "Cart not found"))
           /\ UNCHANGED <<products, users, coupons, carts, orders, now, inflight>>
      ELSE /\ carts' = [carts EXCEPT ![userId] = Some(RemovedItems(cart[1], productId, size))]
           /\ response' = Answer(request, now, Success("remove_from_cart", "Item removed"))
           /\ UNCHANGED <<products, users, coupons, orders, now, inflight>>

\* DELETE /cart/{user_id}
ClearCart(userId) ==
  /\ carts' = [carts EXCEPT ![userId] = None]
  /\ response' = Answer([userId |-> userId], now, Success("clear_cart", "Cart cleared"))
  /\ UNCHANGED <<products, users, coupons, orders, now, inflight>>

\* get_cart's loop: the items whose product resolves, each with its itemTotal, and their sum
RECURSIVE CartView(_)
CartView(items) ==
  IF items = <<>>
  THEN [items |-> <<>>, total |-> 0]
  ELSE LET done == CartView(SubSeq(items, 1, Len(items) - 1))
           item == items[Len(items)]
           product == FindProduct(item.productId)
       IN  IF product = None
           THEN done
           ELSE LET price == EffectivePrice(product[1])
                    fee == IF TruthyDict(item.fitAdjustment)
                           THEN Get(item.fitAdjustment[1], "fee", 0) * item.quantity
                           ELSE 0
                    item_total == price * item.quantity + fee
                IN  [items |-> Append(done.items,
                                      [productId |-> item.productId, price |-> price,
                                       size |-> item.size, quantity |-> item.quantity,
                                       fitAdjustment |-> item.fitAdjustment,
                                       itemTotal |-> item_total]),
                     total |-> done.total + item_total]

\* GET /cart/{user_id}
GetCart(userId) ==
  LET cart == carts[userId]
      view == IF cart = None THEN [items |-> <<>>, total |-> 0] ELSE CartView(cart[1])
  IN  /\ response' = Answer([userId |-> userId], now,
                            [op |-> "get_cart", status |-> 200, body |-> view])
      /\ UNCHANGED <<products, users, coupons, carts, orders, now, inflight>>

\* ------------------------------------------------------------ the cart model
\* AddToCartRequest.quantity and UpdateCartRequest.quantity are any int
RequestQuantities == 0..MaxQty
\* AddToCartRequest.fitAdjustment: absent, or the terms validate_fit_adjustment returned
RequestFits == {None, Some(FitStandard)}

InitCart ==
  /\ products = CheckoutProducts
  /\ users = [u \in UserIds |-> [addresses |-> <<"a1">>, measurementProfiles |-> <<>>]]
  /\ coupons = CheckoutCoupons
  /\ carts = [u \in UserIds |-> None]
  /\ orders = <<>>
  /\ now = 0
  /\ response = NoResponse
  /\ inflight = <<>>

NextCart ==
  \/ \E u \in UserIds, p \in CartProductIds, s \in CartSizes, q \in RequestQuantities,
        f \in RequestFits : AddToCart(u, p, s, q, f)
  \/ \E u \in UserIds, p \in CartProductIds, s \in CartSizes, q \in RequestQuantities :
       UpdateCart(u, p, s, q)
  \/ \E u \in UserIds, p \in CartProductIds, s \in CartSizes : RemoveFromCart(u, p, s)
  \/ \E u \in UserIds : ClearCart(u)
  \/ \E u \in UserIds : GetCart(u)

SpecCart == InitCart /\ [][NextCart]_vars

\* the effective unit price as C11 states it: the discounted price whenever one is
\* present, a discounted price of 0 included, and the list price otherwise
PriceWhenPresent(product) ==
  IF product.discountPrice # None THEN product.discountPrice[1] ELSE product.price

\* the fee attached to an item, 0 when none is attached
AttachedFee(item) ==
  IF item.fitAdjustment # None THEN Get(item.fitAdjustment[1], "fee", 0) ELSE 0

RECURSIVE SumOver(_, _)
SumOver(items, i) ==
  IF i > Len(items) THEN 0
  ELSE (IF items[i].productId \in DOMAIN products
        THEN PriceWhenPresent(products[items[i].productId]) * items[i].quantity
             + AttachedFee(items[i]) * items[i].quantity
        ELSE 0) + SumOver(items, i + 1)

\* the stored items of the cart get_cart has just answered for
ViewedItems ==
  IF carts[response.request.userId] = None THEN <<>> ELSE carts[response.request.userId][1]

\* C11: get_cart's total is the sum over the items whose product resolves of
\* effective price * quantity + fit fee * quantity, the effective price being the
\* discounted price whenever one is present (0 included); the other items are omitted.
C11_CartTotal ==
  response.op = "get_cart" =>
    /\ response.status = 200
    /\ response.body.total = SumOver(ViewedItems, 1)
    /\ Len(response.body.items)
         = Len(SelectSeq(ViewedItems, LAMBDA item : item.productId \in DOMAIN products))
    /\ \A i \in 1..Len(response.body.items) :
         response.body.items[i].productId \in DOMAIN products

\* C14: every line item stored in a cart has quantity >= 1.
C14_QuantityAtLeastOne ==
  \A u \in DOMAIN carts :
    carts[u] # None => \A i \in 1..Len(carts[u][1]) : carts[u][1][i].quantity >= 1

\* ------------------------------------------------- the order-creation model
\* the users collection: empty, or holding u1 with the address a1
UserStates == {<<>>, [u \in UserIds |-> [addresses |-> <<"a1">>, measurementProfiles |-> <<>>]]}

\* add_to_cart stores a cart for any userId it is given, so a cart may belong to
\* a user that is not stored
InitCheckout ==
  /\ products = CheckoutProducts
  /\ users \in UserStates
  /\ coupons = CheckoutCoupons
  /\ carts \in [UserIds -> {None} \cup {Some(items) : items \in CartContents}]
  /\ orders = <<>>
  /\ now = 0
  /\ response = NoResponse
  /\ inflight = <<>>

NextCheckout ==
  \E u \in UserIds, a \in AddressIds, c \in {None, Some("FIRST50")} : CreateOrder(u, a, c)

SpecCheckout == InitCheckout /\ [][NextCheckout]_vars

\* what a create_order step that answers response' must have done, the three
\* failures taken in the order C15 lists them
CreateOrderOutcome ==
  LET userId == response'.request.userId
      cart == carts[userId]
      failed(status, detail) ==
        /\ response'.status = status
        /\ response'.body = [detail |-> detail]
        /\ orders' = orders
        /\ carts' = carts
  IN  IF cart = None \/ cart[1] = <<>>
      THEN failed(400, "Cart is empty")
      ELSE IF userId \notin DOMAIN users
      THEN failed(404, "User not found")
      ELSE IF \A i \in 1..Len(users[userId].addresses) :
                users[userId].addresses[i] # response'.request.shippingAddressId
      THEN failed(404, "Address not found")
      ELSE /\ response'.status = 200
           /\ Len(orders') = Len(orders) + 1
           /\ SubSeq(orders', 1, Len(orders)) = orders
           /\ orders'[Len(orders')].userId = userId
           /\ carts' = [carts EXCEPT ![userId] = None]

\* C15: create_order answers "Cart is empty" (400) when the user has no cart or a
\* cart without items, else "User not found" (404) when the user is not stored,
\* else "Address not found" (404) when shippingAddressId is none of the user's
\* addresses, and each failure inserts no order and leaves the cart as it was;
\* otherwise it inserts exactly one order and removes the user's cart.
C15_CreateOrderOutcomes ==
  [][(response' # response /\ response'.op = "create_order") => CreateOrderOutcome]_vars

\* an order was created from a cart, which is gone
C15_Witness ==
  /\ response.op = "create_order"
  /\ response.status = 200
  /\ Len(orders) = 1
  /\ carts[response.request.userId] = None

\* C17: every order create_order inserts holds at least one line item, whatever
\* the cart's products resolve to.
C17_OrderHasItems == \A i \in 1..Len(orders) : Len(orders[i].items) >= 1

\* ------------------------------------------------ concurrent request handling
\* Each handler awaits its reads and its writes one by one; between two awaits
\* another request's handler may run.
Slots == {1, 2}

AddRequest(productId) ==
  [kind |-> "add_to_cart", userId |-> "u1", productId |-> productId, size |-> "M",
   quantity |-> 1, fitAdjustment |-> None]
UpdateRequest(productId, quantity) ==
  [kind |-> "update_cart", userId |-> "u1", productId |-> productId, size |-> "M",
   quantity |-> quantity]
RemoveRequest(productId) ==
  [kind |-> "remove_from_cart", userId |-> "u1", productId |-> productId, size |-> "M"]
OrderRequest ==
  [kind |-> "create_order", userId |-> "u1", shippingAddressId |-> "a1", couponCode |-> None]

RaceRequests ==
  {AddRequest(p) : p \in ProductIds}
    \cup {UpdateRequest("p1", MaxQty), RemoveRequest("p1"), OrderRequest}

\* a request whose handler has not yet run its first await
Received(request) ==
  [request |-> request, pc |-> "find_cart", cart |-> None, order |-> None, result |-> None]

\* the items a cart handler computes from the cart it read
ItemsToSet(request, items) ==
  CASE request.kind = "add_to_cart" ->
         AddedItems(items, request.productId, request.size, request.quantity,
                    request.fitAdjustment)
    [] request.kind = "update_cart" ->
         UpdatedItems(items, request.productId, request.size, request.quantity)
    [] request.kind = "remove_from_cart" ->
         RemovedItems(items, request.productId, request.size)

SuccessMessage(kind) ==
  CASE kind = "add_to_cart" -> "Added to cart"
    [] kind = "update_cart" -> "Cart updated"
    [] kind = "remove_from_cart" -> "Item removed"

\* the handler returns or raises
Finish(slot, resp) ==
  /\ inflight' = [inflight EXCEPT ![slot].pc = "done", ![slot].result = Some(resp)]
  /\ response' = Answer(inflight[slot].request, now, resp)

\* the first await of each handler: db.carts.find_one, and what follows it up to
\* the handler's first write (the users, products and coupons do not change here)
FindCart(slot) ==
  LET request == inflight[slot].request
      cart == carts[request.userId]
  IN  /\ inflight[slot].pc = "find_cart"
      /\ UNCHANGED <<products, users, coupons, carts, orders, now>>
      /\ IF request.kind = "create_order"
         THEN IF cart = None \/ cart[1] = <<>>
              THEN Finish(slot, Error("create_order", 400, "Cart is empty"))
              ELSE IF request.userId \notin DOMAIN users
              THEN Finish(slot, Error("create_order", 404, "User not found"))
              ELSE LET shipping_address ==
                         FindAddress(users[request.userId].addresses, request.shippingAddressId)
                   IN  IF shipping_address = None
                       THEN Finish(slot, Error("create_order", 404, "Address not found"))
                       ELSE /\ inflight' =
                                 [inflight EXCEPT ![slot].pc = "insert_order",
                                                  ![slot].cart = cart,
                                                  ![slot].order =
                                                     Some(BuildOrder(request.userId, cart[1],
                                                                     shipping_address[1],
                                                                     request.couponCode, now))]
                            /\ UNCHANGED response
         ELSE IF cart = None /\ request.kind # "add_to_cart"
              THEN Finish(slot, Error(request.kind, 404, "Cart not found"))
              ELSE /\ inflight' = [inflight EXCEPT ![slot].pc = "write_cart",
                                                   ![slot].cart = cart]
                   /\ UNCHANGED response

\* the write of add_to_cart, update_cart and remove_from_cart: update_one changes
\* the stored cart if there is one, add_to_cart's insert_one stores a new cart
WriteCart(slot) ==
  LET request == inflight[slot].request
      cart == inflight[slot].cart
      stored == carts[request.userId]
  IN  /\ inflight[slot].pc = "write_cart"
      /\ carts' = IF cart = None
                  THEN [carts EXCEPT ![request.userId] =
                          Some(<<CartItem(request.productId, request.size, request.quantity,
                                          request.fitAdjustment)>>)]
                  ELSE IF stored = None THEN carts
                  ELSE [carts EXCEPT ![request.userId] =
                          SetItems(stored, ItemsToSet(request, cart[1]))]
      /\ Finish(slot, Success(request.kind, SuccessMessage(request.kind)))
      /\ UNCHANGED <<products, users, coupons, orders, now>>

\* create_order's db.orders.insert_one
InsertOrder(slot) ==
  /\ inflight[slot].pc = "insert_order"
  /\ orders' = Append(orders, inflight[slot].order[1])
  /\ inflight' = [inflight EXCEPT ![slot].pc = "delete_cart"]
  /\ UNCHANGED <<products, users, coupons, carts, now, response>>

\* create_order's db.carts.delete_one, and its return
DeleteCart(slot) ==
  /\ inflight[slot].pc = "delete_cart"
  /\ carts' = [carts EXCEPT ![inflight[slot].request.userId] = None]
  /\ Finish(slot, [op |-> "create_order", status |-> 200,
                   body |-> [success |-> TRUE, order |-> inflight[slot].order[1]]])
  /\ UNCHANGED <<products, users, coupons, orders, now>>

\* the carts the two requests find: an existing cart, empty or holding p1
RaceCarts == {Some(<<>>), Some(<<CartItem("p1", "M", 1, None)>>)}

InitRace ==
  /\ products = CheckoutProducts
  /\ users = [u \in UserIds |-> [addresses |-> <<"a1">>, measurementProfiles |-> <<>>]]
  /\ coupons = CheckoutCoupons
  /\ carts \in [UserIds -> RaceCarts]
  /\ orders = <<>>
  /\ now = 0
  /\ response = NoResponse
  /\ inflight \in [Slots -> {Received(request) : request \in RaceRequests}]

NextRace ==
  \/ \E slot \in Slots : FindCart(slot)
  \/ \E slot \in Slots : WriteCart(slot)
  \/ \E slot \in Slots : InsertOrder(slot)
  \/ \E slot \in Slots : DeleteCart(slot)

SpecRace == InitRace /\ [][NextRace]_vars

Kind(slot) == inflight[slot].request.kind
Done(slot) == inflight[slot].pc = "done"
Succeeded(slot) == Done(slot) /\ inflight[slot].result[1].status = 200
StoredItems(userId) == IF carts[userId] = None THEN <<>> ELSE carts[userId][1]
HoldsItem(items, request) == IndexOfItem(items, request.productId, request.size, 1) # 0
Ordered(request) ==
  \E k \in 1..Len(orders) :
    /\ orders[k].userId = request.userId
    /\ \E m \in 1..Len(orders[k].items) :
         /\ orders[k].items[m].productId = request.productId
         /\ orders[k].items[m].size = request.size

\* C12: when an add_to_cart and a create_order of the same user have both run to
\* their end, in whatever interleaving, the item of a successful add_to_cart is in
\* an order of the user or in the user's cart.
C12_AddedItemKept ==
  \A i \in Slots, j \in Slots :
    ( /\ Kind(i) = "add_to_cart" /\ Kind(j) = "create_order"
      /\ Done(i) /\ Done(j) /\ Succeeded(i) )
    => \/ HoldsItem(StoredItems(inflight[i].request.userId), inflight[i].request)
       \/ Ordered(inflight[i].request)

\* two add_to_cart requests for different items have both run to their end
TwoAddsDone ==
  /\ Kind(1) = "add_to_cart" /\ Kind(2) = "add_to_cart"
  /\ inflight[1].request.productId # inflight[2].request.productId
  /\ Done(1) /\ Done(2)

\* C13: two concurrent add_to_cart requests for different items on an existing
\* cart both return success, and the cart stored afterwards is exactly what one
\* of them computed from the cart it had read; when both had read the same cart,
\* holding neither item, only one of the two items is stored.
C13_LastWriterWins ==
  TwoAddsDone =>
    /\ Succeeded(1) /\ Succeeded(2)
    /\ \E i \in Slots :
         carts["u1"] = Some(ItemsToSet(inflight[i].request, inflight[i].cart[1]))
    /\ ( /\ inflight[1].cart = inflight[2].cart
         /\ \A i \in Slots : ~HoldsItem(inflight[1].cart[1], inflight[i].request) )
       => \E i \in Slots, j \in Slots :
            /\ i # j
            /\ HoldsItem(StoredItems("u1"), inflight[i].request)
            /\ ~HoldsItem(StoredItems("u1"), inflight[j].request)

\* both add_to_cart requests returned success and one of the two items is lost
C13_Witness ==
  /\ TwoAddsDone
  /\ Succeeded(1) /\ Succeeded(2)
  /\ HoldsItem(StoredItems("u1"), inflight[2].request)
  /\ ~HoldsItem(StoredItems("u1"), inflight[1].request)

\* C16: two concurrent create_order requests of one user, with no cart request
\* between them, insert at most one order.
C16_AtMostOneOrder ==
  (Kind(1) = "create_order" /\ Kind(2) = "create_order" /\ Done(1) /\ Done(2))
    => Len(orders) <= 1

====
